---- MODULE Spec2Model ----
(***************************************************************************)
(* The "digital rain" terminal animation of EnterTheMatrix.                *)
(*                                                                         *)
(* Two generations of the same class chain live side by side:              *)
(*   Matrix/Matrix.py     _TerminalFrame -> FrameDrawer -> InitializeMatrix*)
(*                        -> Matrix            (runner enter_the_matrix)   *)
(*   Matrix/terminal.py, Matrix/draw_frame.py, Matrix/matrix.py            *)
(*                        _TerminalFrame -> FrameDrawer -> InitializeMatrix*)
(*                        -> EnterTheMatrix    (runner jack_in)            *)
(* The variable `runner` says which entry point drives the object:         *)
(*   "enter_the_matrix"         Matrix.enter_the_matrix        (Matrix.py) *)
(*   "jack_in"                  EnterTheMatrix.jack_in         (matrix.py) *)
(*   "update_and_draw_columns"  the frame cycle made of the public method  *)
(*                              FrameDrawer.update_and_draw_columns        *)
(*                              of draw_frame.py, after a buffer clear     *)
(*                              (the two calls jack_in keeps as comments). *)
(*                                                                         *)
(* Python lists are 0-based, TLA+ sequences 1-based: list[i] is seq[i+1].  *)
(* A speed is the rational speed / SpeedDen.                               *)
(***************************************************************************)
EXTENDS Integers, Sequences, FiniteSets, TLC

(* ------------------------------ bounds -------------------------------- *)
\* columns and lines the terminal size query reports
Columns == 2
Lines == 2
\* the frame counter is capped: _sleep_and_advance_frame stops at MaxFrame
MaxFrame == 9
\* resolution of random.uniform: speeds are multiples of 1 / SpeedDen
SpeedDen == 2
\* the terminal size query reports 1..MaxDetected columns and lines
MaxDetected == 4

(* ------------------------- program constants -------------------------- *)
DEFAULT_TERMINAL_COLUMNS == 80
DEFAULT_TERMINAL_LINES == 24
MinTrailLength == 5
MaxTrailLength == 25
\* random.uniform(0.5, 1.5): the ends of the range in halves
MinSpeedHalves == 1
MaxSpeedHalves == 3

RESET == "RESET"
HIDE_CURSOR == "HIDE_CURSOR"
SHOW_CURSOR == "SHOW_CURSOR"
CURSOR_TOP_LEFT == "CURSOR_TOP_LEFT"
GREEN == "GREEN"
BRIGHT_GREEN == "BRIGHT_GREEN"
DIM_GREEN == "DIM_GREEN"
RED == "RED"
BLANK == " "
NEWLINE == "\n"
\* sys.stdout.flush(), as the last element of what a render wrote
FLUSH == "FLUSH"
\* the glyph table, sampled by one glyph: nothing in the program reads a
\* glyph back, a painted cell only differs from BLANK
CHARS == {"Z"}

VARIABLES
    runner,                 \* the entry point driving the object
    pc,                     \* position of the single thread of control
    terminal_columns,       \* self.terminal_columns
    terminal_lines,         \* self.terminal_lines
    frame,                  \* self.frame
    display,                \* self.display
    colors,                 \* self.colors
    drops,                  \* self.drops
    speeds,                 \* self.speeds (numerators over SpeedDen)
    lengths,                \* self.lengths
    col_index,              \* loop variable of update_and_draw_columns
    column_skip_interval,   \* local of update_and_draw_columns
    error,                  \* kwargs.get('error') of the running update call
    out,                    \* what was written to stdout outside the frames
    exc,                    \* the exception that ended the process, if any
    steps,                  \* history: steps done in the current iteration
    did_reset,              \* history: _reset_column ran in this column call
    exit_entries,           \* history: number of calls of clean_exit
    sigint,                 \* history: number of Ctrl+C the process received
    frame_out,              \* what draw_frame wrote in the current iteration
    cell_writes,            \* history: cells the current column call indexed
    size_failure,           \* history: the read at which the size query raised
    frames_idle             \* history: per column, frames since its drop moved

vars == <<runner, pc, terminal_columns, terminal_lines, frame, display, colors,
          drops, speeds, lengths, col_index, column_skip_interval, error, out,
          exc, steps, did_reset, exit_entries, sigint, frame_out, cell_writes,
          size_failure, frames_idle>>

Runners == {"enter_the_matrix", "jack_in", "update_and_draw_columns"}

Max(a, b) == IF a >= b THEN a ELSE b

\* random.uniform(0.5, 1.5), as numerators over SpeedDen
SpeedSet ==
    {n \in 0..(2 * SpeedDen) :
        /\ 2 * n >= MinSpeedHalves * SpeedDen
        /\ 2 * n <= MaxSpeedHalves * SpeedDen}

\* random.randint(5, 25), sampled at both ends of its range
LengthSet == {MinTrailLength, MaxTrailLength}


(* --------------------- terminal.py: _TerminalFrame -------------------- *)
\* _get_terminal_size: the query succeeded
_get_terminal_size == <<Columns, Lines>>

\* mutant: the buffers are allocated once and then kept
_create_display_buffer_once ==
    IF display = <<>>
    THEN [display |-> [r \in 1..terminal_lines |-> [c \in 1..terminal_columns |-> BLANK]],
          colors  |-> [r \in 1..terminal_lines |-> [c \in 1..terminal_columns |-> RESET]]]
    ELSE [display |-> display, colors |-> colors]

\* _create_display_buffer: a blank display and a RESET color per cell
\* (the same text is Matrix.py lines 59-63)
_create_display_buffer ==
    [display |-> [r \in 1..terminal_lines |-> [c \in 1..terminal_columns |-> BLANK]],
     colors  |-> [r \in 1..terminal_lines |-> [c \in 1..terminal_columns |-> RESET]]]

\* mutant: the comparison is with terminal_lines, every row gets a newline
_check_for_end_of_frame_every_row(row_idx) ==
    IF row_idx < terminal_lines THEN <<NEWLINE>> ELSE <<>>

\* _check_for_end_of_frame: what it writes after the row
_check_for_end_of_frame(row_idx) ==
    IF row_idx < terminal_lines - 1 THEN <<NEWLINE>> ELSE <<>>

\* _build_line, the loop from col_idx on: color, then character, per column
RECURSIVE _build_line_from(_, _)
_build_line_from(row_idx, col_idx) ==
    IF col_idx >= terminal_columns
    THEN <<>>
    ELSE <<colors[row_idx + 1][col_idx + 1], display[row_idx + 1][col_idx + 1]>>
             \o _build_line_from(row_idx, col_idx + 1)

_build_line(row_idx) ==
    _build_line_from(row_idx, 0) \o <<RESET>>

_write_row(row_idx) ==
    _build_line(row_idx) \o _check_for_end_of_frame(row_idx)

\* draw_frame, the loop over the rows from row_idx on
RECURSIVE draw_frame_rows_from(_)
draw_frame_rows_from(row_idx) ==
    IF row_idx >= terminal_lines
    THEN <<>>
    ELSE _write_row(row_idx) \o draw_frame_rows_from(row_idx + 1)

\* everything one call of draw_frame sends to stdout, in order
draw_frame_writes ==
    <<CURSOR_TOP_LEFT>> \o draw_frame_rows_from(0) \o <<FLUSH>>

(* --------------------- draw_frame.py: FrameDrawer --------------------- *)
\* initialize_columns: the drops, speeds and lengths a constructor may draw
initialize_columns ==
    [drops   : {[c \in 1..terminal_columns |-> 0]},
     speeds  : [1..terminal_columns -> SpeedSet],
     lengths : [1..terminal_columns -> LengthSet]]

\* mutant: only the bottom edge is checked
_character_within_terminal_bounds_below(vert_pos) ==
    vert_pos < terminal_lines

_character_within_terminal_bounds(vert_pos) ==
    0 <= vert_pos /\ vert_pos < terminal_lines

\* a Python list index: a negative one counts from the end of the list
ListIndex(index, length) == IF index < 0 THEN index + length ELSE index

\* self.display[vert_pos][col_index] = ...; buf.writes collects the index
\* pairs the statement was run with
_set_display_character(buf, vert_pos, ci, ch) ==
    [buf EXCEPT !.display[ListIndex(vert_pos, terminal_lines) + 1][ci + 1] = ch,
                !.writes = @ \cup {<<vert_pos, ci>>}]

\* mutant: the test of the error flag is inverted
_set_character_color_error_inverted(buf, vert_pos, ci, trail_length, err) ==
    IF ~err
    THEN [buf EXCEPT !.colors[ListIndex(vert_pos, terminal_lines) + 1][ci + 1] = RED]
    ELSE IF trail_length = 0
         THEN [buf EXCEPT !.colors[ListIndex(vert_pos, terminal_lines) + 1][ci + 1] = BRIGHT_GREEN]
         ELSE IF trail_length < 3
              THEN [buf EXCEPT !.colors[ListIndex(vert_pos, terminal_lines) + 1][ci + 1] = GREEN]
              ELSE [buf EXCEPT !.colors[ListIndex(vert_pos, terminal_lines) + 1][ci + 1] = DIM_GREEN]

\* mutant: the mid tier reaches one row too far, error mode is not looked at
_set_character_color_late_dim(buf, vert_pos, ci, trail_length, err) ==
    IF trail_length = 0
    THEN [buf EXCEPT !.colors[vert_pos + 1][ci + 1] = BRIGHT_GREEN]
    ELSE IF trail_length <= 3
         THEN [buf EXCEPT !.colors[vert_pos + 1][ci + 1] = GREEN]
         ELSE [buf EXCEPT !.colors[vert_pos + 1][ci + 1] = DIM_GREEN]

_set_character_color(buf, vert_pos, ci, trail_length, err) ==
    IF err
    THEN [buf EXCEPT !.colors[ListIndex(vert_pos, terminal_lines) + 1][ci + 1] = RED]
    ELSE IF trail_length = 0
         THEN [buf EXCEPT !.colors[ListIndex(vert_pos, terminal_lines) + 1][ci + 1] = BRIGHT_GREEN]
         ELSE IF trail_length < 3
              THEN [buf EXCEPT !.colors[ListIndex(vert_pos, terminal_lines) + 1][ci + 1] = GREEN]
              ELSE [buf EXCEPT !.colors[ListIndex(vert_pos, terminal_lines) + 1][ci + 1] = DIM_GREEN]

\* glyph[row] is what random.choice(CHARS) returns for the cell of that row
random_choice(glyph, vert_pos) ==
    IF vert_pos \in DOMAIN glyph THEN glyph[vert_pos] ELSE CHOOSE ch \in CHARS : TRUE

_draw_and_color_character(buf, ci, trail_length, glyph, err) ==
    LET vert_pos == drops[ci + 1] - trail_length
    IN  IF _character_within_terminal_bounds(vert_pos)
        THEN _set_character_color(
                 _set_display_character(buf, vert_pos, ci, random_choice(glyph, vert_pos)),
                 vert_pos, ci, trail_length, err)
        ELSE buf

RECURSIVE _draw_column_trail_from(_, _, _, _, _)
_draw_column_trail_from(buf, ci, trail_length, glyph, err) ==
    IF trail_length >= lengths[ci + 1]
    THEN buf
    ELSE _draw_column_trail_from(
             _draw_and_color_character(buf, ci, trail_length, glyph, err),
             ci, trail_length + 1, glyph, err)

\* mutant: the loop over the trail starts at 1, range(1, self.lengths[..])
_draw_column_trail_headless(buf, ci, glyph, err) ==
    _draw_column_trail_from(buf, ci, 1, glyph, err)

\* for trail_length in range(self.lengths[col_index])
_draw_column_trail(buf, ci, glyph, err) ==
    _draw_column_trail_from(buf, ci, 0, glyph, err)

\* mutant: the reset rebuilds the list of drop positions, [0] * columns
_reset_column_all(ci, new_speed, new_length) ==
    /\ drops' = [c \in 1..terminal_columns |-> 0]
    /\ speeds' = [speeds EXCEPT ![ci + 1] = new_speed]
    /\ lengths' = [lengths EXCEPT ![ci + 1] = new_length]

\* mutant: the two random values land in each other's list
_reset_column_swapped(ci, new_speed, new_length) ==
    /\ drops' = [drops EXCEPT ![ci + 1] = 0]
    /\ speeds' = [speeds EXCEPT ![ci + 1] = new_length]
    /\ lengths' = [lengths EXCEPT ![ci + 1] = new_speed]

\* _reset_column with the two values random returns
_reset_column(ci, new_speed, new_length) ==
    /\ drops' = [drops EXCEPT ![ci + 1] = 0]
    /\ speeds' = [speeds EXCEPT ![ci + 1] = new_speed]
    /\ lengths' = [lengths EXCEPT ![ci + 1] = new_length]

\* mutant: the quotient is taken the other way round, int(column_speed / 2)
skip_interval_inverted(column_speed) ==
    Max(1, column_speed \div (2 * SpeedDen))

\* max(1, int(2 / column_speed)); int() truncates, the quotient is positive
skip_interval(column_speed) ==
    Max(1, (2 * SpeedDen) \div column_speed)

(* ----------------------- Matrix.py: FrameDrawer ----------------------- *)
Matrix_skip_interval(column_speed) ==
    Max(1, (2 * SpeedDen) \div column_speed)

Matrix_cell_color(j) ==
    IF j = 0 THEN BRIGHT_GREEN ELSE IF j < 3 THEN GREEN ELSE DIM_GREEN

RECURSIVE Matrix_draw_column_trail_from(_, _, _, _)
Matrix_draw_column_trail_from(buf, i, j, glyph) ==
    IF j >= lengths[i + 1]
    THEN buf
    ELSE LET y == drops[i + 1] - j
             painted ==
                 IF 0 <= y /\ y < terminal_lines
                 THEN [buf EXCEPT !.display[ListIndex(y, terminal_lines) + 1][i + 1] = glyph[y],
                                  !.colors[ListIndex(y, terminal_lines) + 1][i + 1] = Matrix_cell_color(j),
                                  !.writes = @ \cup {<<y, i>>}]
                 ELSE buf
         IN  Matrix_draw_column_trail_from(painted, i, j + 1, glyph)

Matrix_draw_column_trail(buf, i, glyph) ==
    Matrix_draw_column_trail_from(buf, i, 0, glyph)

\* mutant: the reset appends the new values instead of assigning them
Matrix_reset_column_appended(i, new_speed, new_length) ==
    /\ drops' = Append([drops EXCEPT ![i + 1] = 0], 0)
    /\ speeds' = Append(speeds, new_speed)
    /\ lengths' = Append(lengths, new_length)

Matrix_reset_column(i, new_speed, new_length) ==
    /\ drops' = [drops EXCEPT ![i + 1] = 0]
    /\ speeds' = [speeds EXCEPT ![i + 1] = new_speed]
    /\ lengths' = [lengths EXCEPT ![i + 1] = new_length]

(* ------------------------------- Init --------------------------------- *)
Init ==
    /\ runner \in Runners
    /\ pc = IF runner = "jack_in" THEN "intro" ELSE "create"
    /\ terminal_columns = _get_terminal_size[1]
    /\ terminal_lines = _get_terminal_size[2]
    /\ frame = 0
    /\ display = <<>>
    /\ colors = <<>>
    /\ \E cols \in initialize_columns :
          /\ drops = cols.drops
          /\ speeds = cols.speeds
          /\ lengths = cols.lengths
    /\ col_index = 0
    /\ column_skip_interval = 0
    /\ error = FALSE
    /\ out = <<>>
    /\ exc = "none"
    /\ steps = <<>>
    /\ did_reset = FALSE
    /\ exit_entries = 0
    /\ sigint = 0
    /\ frame_out = <<>>
    /\ cell_writes = {}
    /\ size_failure = "none"
    /\ frames_idle = [c \in 1..terminal_columns |-> 0]


(* ------------------------------ actions ------------------------------- *)
LoopPcs == {"create", "update", "check", "paint", "draw", "sleep"}
ExitPcs == {"exit_show", "exit_reset", "exit_text", "exit_pause", "exit_clear",
            "err_clear", "err_frame"}
EndPcs == {"done", "crashed"}
GlyphChoices == [0..(terminal_lines - 1) -> CHARS]
LastColumn == col_index + 1 >= terminal_columns

\* matrix.py InitializeMatrix._print_intro: the banner, then time.sleep(2)
_print_intro ==
    /\ pc = "intro"
    /\ out' = Append(out, "INTRO_TEXT")
    /\ pc' = "create"
    /\ UNCHANGED <<runner, frames_idle, sigint, frame_out, cell_writes, size_failure,
                   terminal_columns, terminal_lines, frame, display,
                   colors, drops, speeds, lengths, col_index,
                   column_skip_interval, error, exc, steps, did_reset,
                   exit_entries>>

\* _initialize_frame, first statement: self._create_display_buffer(); the
\* next statement is the call self._update_and_draw_columns().  The client
\* of FrameDrawer.update_and_draw_columns passes error in its kwargs.
_initialize_frame ==
    /\ pc = "create"
    /\ display' = _create_display_buffer.display
    /\ colors' = _create_display_buffer.colors
    /\ steps' = <<"clear">>
    /\ col_index' = 0
    /\ error' \in IF runner = "update_and_draw_columns" THEN BOOLEAN ELSE {FALSE}
    /\ frame_out' = <<>>
    /\ cell_writes' = {}
    /\ pc' = "update"
    /\ UNCHANGED <<runner, frames_idle, sigint, size_failure,
                   terminal_columns, terminal_lines, frame, drops,
                   speeds, lengths, column_skip_interval, out, exc, did_reset,
                   exit_entries>>

\* terminal.py _TerminalFrame._update_and_draw_columns: the body is `pass`.
\* draw_frame.py defines update_and_draw_columns (no leading underscore), so
\* for an EnterTheMatrix object _initialize_frame reaches this method.
_update_and_draw_columns ==
    /\ pc = "update"
    /\ runner = "jack_in"
    /\ pc' = "draw"
    /\ UNCHANGED <<runner, frames_idle, sigint, frame_out, cell_writes, size_failure,
                   terminal_columns, terminal_lines, frame, display,
                   colors, drops, speeds, lengths, col_index,
                   column_skip_interval, error, out, exc, steps, did_reset,
                   exit_entries>>

\* mutant: the drop position grows by the skip interval instead of by one
update_and_draw_columns_by_interval ==
    /\ pc = "update"
    /\ runner = "update_and_draw_columns"
    /\ column_skip_interval' = skip_interval(speeds[col_index + 1])
    /\ drops' = IF frame % column_skip_interval' = 0
                THEN [drops EXCEPT ![col_index + 1] = @ + column_skip_interval']
                ELSE drops
    /\ frames_idle' = IF drops' # drops
                      THEN [frames_idle EXCEPT ![col_index + 1] = 0]
                      ELSE frames_idle
    /\ did_reset' = FALSE
    /\ pc' = "check"
    /\ UNCHANGED <<runner, sigint, frame_out, cell_writes, size_failure,
                   terminal_columns, terminal_lines, frame, display,
                   colors, speeds, lengths, col_index, error, out, exc, steps,
                   exit_entries>>

\* mutant: the drop position grows in every frame, whatever the interval
update_and_draw_columns_every_frame ==
    /\ pc = "update"
    /\ runner = "update_and_draw_columns"
    /\ column_skip_interval' = skip_interval(speeds[col_index + 1])
    /\ drops' = [drops EXCEPT ![col_index + 1] = @ + 1]
    /\ frames_idle' = IF drops' # drops
                      THEN [frames_idle EXCEPT ![col_index + 1] = 0]
                      ELSE frames_idle
    /\ did_reset' = FALSE
    /\ pc' = "check"
    /\ UNCHANGED <<runner, sigint, frame_out, cell_writes, size_failure,
                   terminal_columns, terminal_lines, frame, display,
                   colors, speeds, lengths, col_index, error, out, exc, steps,
                   exit_entries>>

\* draw_frame.py update_and_draw_columns, loop body up to the increment
update_and_draw_columns ==
    /\ pc = "update"
    /\ runner = "update_and_draw_columns"
    /\ column_skip_interval' = skip_interval(speeds[col_index + 1])
    /\ drops' = IF frame % column_skip_interval' = 0
                THEN [drops EXCEPT ![col_index + 1] = @ + 1]
                ELSE drops
    /\ frames_idle' = IF drops' # drops
                      THEN [frames_idle EXCEPT ![col_index + 1] = 0]
                      ELSE frames_idle
    /\ did_reset' = FALSE
    /\ pc' = "check"
    /\ UNCHANGED <<runner, sigint, frame_out, cell_writes, size_failure,
                   terminal_columns, terminal_lines, frame, display,
                   colors, speeds, lengths, col_index, error, out, exc, steps,
                   exit_entries>>

\* mutant: the trail length is left out of the comparison
_check_for_drop_off_early ==
    /\ pc = "check"
    /\ runner = "update_and_draw_columns"
    /\ LET drop_position == drops[col_index + 1]
           max_length_for_terminal == terminal_lines
       IN  IF drop_position > max_length_for_terminal
           THEN /\ \E new_speed \in SpeedSet, new_length \in LengthSet :
                       _reset_column(col_index, new_speed, new_length)
                /\ did_reset' = TRUE
           ELSE UNCHANGED <<drops, speeds, lengths, did_reset>>
    /\ pc' = "paint"
    /\ UNCHANGED <<runner, frames_idle, sigint, frame_out, cell_writes, size_failure,
                   terminal_columns, terminal_lines, frame, display,
                   colors, col_index, column_skip_interval, error, out, exc,
                   steps, exit_entries>>

\* mutant: the comparison is off by one, the column is reset a tick late
_check_for_drop_off_late ==
    /\ pc = "check"
    /\ runner = "update_and_draw_columns"
    /\ LET drop_position == drops[col_index + 1]
           max_length_for_terminal == terminal_lines + lengths[col_index + 1]
       IN  IF drop_position > max_length_for_terminal + 1
           THEN /\ \E new_speed \in SpeedSet, new_length \in LengthSet :
                       _reset_column(col_index, new_speed, new_length)
                /\ did_reset' = TRUE
           ELSE UNCHANGED <<drops, speeds, lengths, did_reset>>
    /\ pc' = "paint"
    /\ UNCHANGED <<runner, frames_idle, sigint, frame_out, cell_writes, size_failure,
                   terminal_columns, terminal_lines, frame, display,
                   colors, col_index, column_skip_interval, error, out, exc,
                   steps, exit_entries>>

\* draw_frame.py _check_for_drop_off
_check_for_drop_off ==
    /\ pc = "check"
    /\ runner = "update_and_draw_columns"
    /\ LET drop_position == drops[col_index + 1]
           max_length_for_terminal == terminal_lines + lengths[col_index + 1]
       IN  IF drop_position > max_length_for_terminal
           THEN /\ \E new_speed \in SpeedSet, new_length \in LengthSet :
                       _reset_column(col_index, new_speed, new_length)
                /\ did_reset' = TRUE
           ELSE UNCHANGED <<drops, speeds, lengths, did_reset>>
    /\ pc' = "paint"
    /\ UNCHANGED <<runner, frames_idle, sigint, frame_out, cell_writes, size_failure,
                   terminal_columns, terminal_lines, frame, display,
                   colors, col_index, column_skip_interval, error, out, exc,
                   steps, exit_entries>>

\* draw_frame.py: self._draw_column_trail(col_index, **kwargs), then the
\* next column or the end of the loop
draw_column_trail_step ==
    /\ pc = "paint"
    /\ runner = "update_and_draw_columns"
    /\ \E glyph \in GlyphChoices :
          LET buf == _draw_column_trail(
                         [display |-> display, colors |-> colors, writes |-> {}],
                         col_index, glyph, error)
          IN  /\ display' = buf.display
              /\ colors' = buf.colors
              /\ cell_writes' = buf.writes
    /\ IF LastColumn
       THEN /\ pc' = "draw"
            /\ steps' = Append(steps, "advance")
            /\ UNCHANGED col_index
       ELSE /\ pc' = "update"
            /\ col_index' = col_index + 1
            /\ UNCHANGED steps
    /\ UNCHANGED <<runner, frames_idle, sigint, frame_out, size_failure,
                   terminal_columns, terminal_lines, frame, drops,
                   speeds, lengths, column_skip_interval, error, out, exc,
                   did_reset, exit_entries>>

\* Matrix.py _update_and_draw_columns, loop body up to the increment
Matrix_update_and_draw_columns ==
    /\ pc = "update"
    /\ runner = "enter_the_matrix"
    /\ column_skip_interval' = Matrix_skip_interval(speeds[col_index + 1])
    /\ drops' = IF frame % column_skip_interval' = 0
                THEN [drops EXCEPT ![col_index + 1] = @ + 1]
                ELSE drops
    /\ frames_idle' = IF drops' # drops
                      THEN [frames_idle EXCEPT ![col_index + 1] = 0]
                      ELSE frames_idle
    /\ did_reset' = FALSE
    /\ pc' = "check"
    /\ UNCHANGED <<runner, sigint, frame_out, cell_writes, size_failure,
                   terminal_columns, terminal_lines, frame, display,
                   colors, speeds, lengths, col_index, error, out, exc, steps,
                   exit_entries>>

\* Matrix.py _check_for_drop_off
Matrix_check_for_drop_off ==
    /\ pc = "check"
    /\ runner = "enter_the_matrix"
    /\ IF drops[col_index + 1] > terminal_lines + lengths[col_index + 1]
       THEN /\ \E new_speed \in SpeedSet, new_length \in LengthSet :
                   Matrix_reset_column(col_index, new_speed, new_length)
            /\ did_reset' = TRUE
       ELSE UNCHANGED <<drops, speeds, lengths, did_reset>>
    /\ pc' = "paint"
    /\ UNCHANGED <<runner, frames_idle, sigint, frame_out, cell_writes, size_failure,
                   terminal_columns, terminal_lines, frame, display,
                   colors, col_index, column_skip_interval, error, out, exc,
                   steps, exit_entries>>

\* Matrix.py: self._draw_column_trail(i), then the next column or the end
Matrix_draw_column_trail_step ==
    /\ pc = "paint"
    /\ runner = "enter_the_matrix"
    /\ \E glyph \in GlyphChoices :
          LET buf == Matrix_draw_column_trail(
                         [display |-> display, colors |-> colors, writes |-> {}],
                         col_index, glyph)
          IN  /\ display' = buf.display
              /\ colors' = buf.colors
              /\ cell_writes' = buf.writes
    /\ IF LastColumn
       THEN /\ pc' = "draw"
            /\ steps' = Append(steps, "advance")
            /\ UNCHANGED col_index
       ELSE /\ pc' = "update"
            /\ col_index' = col_index + 1
            /\ UNCHANGED steps
    /\ UNCHANGED <<runner, frames_idle, sigint, frame_out, size_failure,
                   terminal_columns, terminal_lines, frame, drops,
                   speeds, lengths, column_skip_interval, error, out, exc,
                   did_reset, exit_entries>>

\* draw_frame: the buffers go to stdout, which is flushed
draw_frame ==
    /\ pc = "draw"
    /\ frame_out' = draw_frame_writes
    /\ steps' = Append(steps, "render")
    /\ pc' = "sleep"
    /\ UNCHANGED <<runner, frames_idle, sigint, cell_writes, size_failure,
                   terminal_columns, terminal_lines, frame, display,
                   colors, drops, speeds, lengths, col_index,
                   column_skip_interval, error, out, exc, did_reset,
                   exit_entries>>

\* mutant: the loop is `while self.frame < 3`, the runner returns after it
_sleep_and_advance_frame_bounded ==
    /\ pc = "sleep"
    /\ frame < MaxFrame
    /\ frame' = frame + 1
    /\ frames_idle' = [c \in 1..terminal_columns |-> frames_idle[c] + 1]
    /\ steps' = Append(steps, "sleep")
    /\ pc' = IF frame' < 3 THEN "create" ELSE "done"
    /\ UNCHANGED <<runner, sigint, frame_out, cell_writes, size_failure,
                   terminal_columns, terminal_lines, display, colors,
                   drops, speeds, lengths, col_index, column_skip_interval,
                   error, out, exc, did_reset, exit_entries>>

\* _sleep_and_advance_frame: time.sleep(0.05); self.frame += 1
_sleep_and_advance_frame ==
    /\ pc = "sleep"
    /\ frame < MaxFrame
    /\ frame' = frame + 1
    /\ frames_idle' = [c \in 1..terminal_columns |-> frames_idle[c] + 1]
    /\ steps' = Append(steps, "sleep")
    /\ pc' = "create"
    /\ UNCHANGED <<runner, sigint, frame_out, cell_writes, size_failure,
                   terminal_columns, terminal_lines, display, colors,
                   drops, speeds, lengths, col_index, column_skip_interval,
                   error, out, exc, did_reset, exit_entries>>


(* ------------------------ interrupt and shutdown ---------------------- *)
Programs == {"enter_the_matrix", "jack_in"}

\* Ctrl+C inside `try: while True: ...`: except KeyboardInterrupt calls
\* self.clean_exit()
KeyboardInterrupt_in_loop ==
    /\ runner \in Programs
    /\ pc \in LoopPcs
    /\ sigint' = sigint + 1
    /\ pc' = "exit_show"
    /\ exit_entries' = exit_entries + 1
    /\ UNCHANGED <<runner, frames_idle, frame_out, cell_writes, size_failure,
                   terminal_columns, terminal_lines, frame, display,
                   colors, drops, speeds, lengths, col_index,
                   column_skip_interval, error, out, exc, steps, did_reset>>

\* Ctrl+C outside the try block: during _print_intro (jack_in calls it before
\* `try`) or while clean_exit runs in the except clause; nothing catches it
KeyboardInterrupt_uncaught ==
    /\ runner \in Programs
    /\ pc \in {"intro"} \cup ExitPcs
    /\ sigint' = sigint + 1
    /\ pc' = "crashed"
    /\ exc' = "KeyboardInterrupt"
    /\ UNCHANGED <<runner, frames_idle, frame_out, cell_writes, size_failure,
                   terminal_columns, terminal_lines, frame, display,
                   colors, drops, speeds, lengths, col_index,
                   column_skip_interval, error, out, steps, did_reset,
                   exit_entries>>

\* a write to stdout fails (a closed pipe): OSError, which no clause catches
WritePcs == {"intro", "draw", "exit_show", "exit_reset", "exit_text"}

OutputWriteFailure ==
    /\ runner \in Programs
    /\ pc \in WritePcs
    /\ pc' = "crashed"
    /\ exc' = "OSError"
    /\ UNCHANGED <<runner, frames_idle, sigint, frame_out, cell_writes, size_failure,
                   terminal_columns, terminal_lines, frame, display,
                   colors, drops, speeds, lengths, col_index,
                   column_skip_interval, error, out, steps, did_reset,
                   exit_entries>>

ExitStep(from, to, written) ==
    /\ pc = from
    /\ pc' = to
    /\ out' = IF written = "" THEN out ELSE Append(out, written)
    /\ UNCHANGED <<runner, frames_idle, sigint, frame_out, cell_writes, size_failure,
                   terminal_columns, terminal_lines, frame, display,
                   colors, drops, speeds, lengths, col_index,
                   column_skip_interval, error, exc, steps, did_reset,
                   exit_entries>>

\* Matrix.py InitializeMatrix.clean_exit, statement by statement
Matrix_clean_exit ==
    /\ runner = "enter_the_matrix"
    /\ \/ ExitStep("exit_show", "exit_reset", SHOW_CURSOR)
       \/ ExitStep("exit_reset", "exit_text", RESET)
       \/ ExitStep("exit_text", "exit_pause", "EXIT_TEXT")
       \/ ExitStep("exit_pause", "exit_clear", "PAUSE")
       \/ ExitStep("exit_clear", "done", "CLEAR_SCREEN")

\* matrix.py InitializeMatrix.clean_exit: the two prints, then
\* _print_error_screen, whose first statement clears the screen
clean_exit ==
    /\ runner = "jack_in"
    /\ \/ ExitStep("exit_show", "exit_reset", SHOW_CURSOR)
       \/ ExitStep("exit_reset", "err_clear", RESET)
       \/ ExitStep("err_clear", "err_frame", "CLEAR_SCREEN")

\* matrix.py _print_error_screen: self._initialize_frame(error=True).
\* _initialize_frame(self) takes no keyword argument, so the call raises
\* TypeError before anything of it runs; draw_frame, the exit banner,
\* time.sleep(2) and the final clear of clean_exit are never reached.
_print_error_screen ==
    /\ runner = "jack_in"
    /\ pc = "err_frame"
    /\ pc' = "crashed"
    /\ exc' = "TypeError"
    /\ UNCHANGED <<runner, frames_idle, sigint, frame_out, cell_writes, size_failure,
                   terminal_columns, terminal_lines, frame, display,
                   colors, drops, speeds, lengths, col_index,
                   column_skip_interval, error, out, steps, did_reset,
                   exit_entries>>

Next ==
    \/ _print_intro
    \/ _initialize_frame
    \/ _update_and_draw_columns
    \/ update_and_draw_columns
    \/ _check_for_drop_off
    \/ draw_column_trail_step
    \/ Matrix_update_and_draw_columns
    \/ Matrix_check_for_drop_off
    \/ Matrix_draw_column_trail_step
    \/ draw_frame
    \/ _sleep_and_advance_frame
    \/ KeyboardInterrupt_in_loop
    \/ KeyboardInterrupt_uncaught
    \/ OutputWriteFailure
    \/ Matrix_clean_exit
    \/ clean_exit
    \/ _print_error_screen

Spec == Init /\ [][Next]_vars

\* what the environment does to the process: Ctrl+C, a failing write
EnvironmentStep ==
    \/ KeyboardInterrupt_in_loop
    \/ KeyboardInterrupt_uncaught
    \/ OutputWriteFailure

\* the statements of the program itself
ProgramStep ==
    \/ _print_intro
    \/ _initialize_frame
    \/ _update_and_draw_columns
    \/ update_and_draw_columns
    \/ _check_for_drop_off
    \/ draw_column_trail_step
    \/ Matrix_update_and_draw_columns
    \/ Matrix_check_for_drop_off
    \/ Matrix_draw_column_trail_step
    \/ draw_frame
    \/ _sleep_and_advance_frame
    \/ Matrix_clean_exit
    \/ clean_exit
    \/ _print_error_screen

\* one thread, nothing blocks but time.sleep, which returns: the program
\* always takes its next statement; the environment owes nothing
FairSpec == Init /\ [][ProgramStep \/ EnvironmentStep]_vars /\ WF_vars(ProgramStep)


(* ------------------- construction, statement by statement ------------- *)
\* _TerminalFrame.__init__ calls _get_terminal_size() without arguments:
\* kwargs is empty there.  shutil.get_terminal_size() is called twice, once
\* per attribute; each call returns a size or raises.
DetectedSizes == 1..MaxDetected
SizePcs == {"size_columns", "size_lines", "size_except", "size_return",
            "frame_init", "constructed"}
SizeUnchanged ==
    UNCHANGED <<runner, frames_idle, sigint, frame_out, cell_writes, frame, display, colors,
                col_index, column_skip_interval, error, out, exc, steps,
                did_reset, exit_entries>>

SizeInit ==
    /\ runner \in Runners
    /\ pc = "size_columns"
    /\ terminal_columns = 0
    /\ terminal_lines = 0
    /\ frame = 0
    /\ display = <<>>
    /\ colors = <<>>
    /\ drops = <<>>
    /\ speeds = <<>>
    /\ lengths = <<>>
    /\ col_index = 0
    /\ column_skip_interval = 0
    /\ error = FALSE
    /\ out = <<>>
    /\ exc = "none"
    /\ steps = <<>>
    /\ did_reset = FALSE
    /\ exit_entries = 0
    /\ sigint = 0
    /\ frame_out = <<>>
    /\ cell_writes = {}
    /\ size_failure = "none"
    /\ frames_idle = <<>>

\* try: self.terminal_columns = get_terminal_size().columns
_get_terminal_size_columns ==
    /\ pc = "size_columns"
    /\ \/ /\ \E detected \in DetectedSizes : terminal_columns' = detected
          /\ pc' = "size_lines"
          /\ UNCHANGED size_failure
       \/ /\ size_failure' = "columns"
          /\ pc' = "size_except"
          /\ UNCHANGED terminal_columns
    /\ UNCHANGED <<terminal_lines, drops, speeds, lengths>>
    /\ SizeUnchanged

\* self.terminal_lines = get_terminal_size().lines
_get_terminal_size_lines ==
    /\ pc = "size_lines"
    /\ \/ /\ \E detected \in DetectedSizes : terminal_lines' = detected
          /\ pc' = "size_return"
          /\ UNCHANGED size_failure
       \/ /\ size_failure' = "lines"
          /\ pc' = "size_except"
          /\ UNCHANGED terminal_lines
    /\ UNCHANGED <<terminal_columns, drops, speeds, lengths>>
    /\ SizeUnchanged

\* mutant: the handler only fills in the attribute the try block left unset
_get_terminal_size_except_unset_only ==
    /\ pc = "size_except"
    /\ terminal_columns' = IF terminal_columns = 0
                           THEN DEFAULT_TERMINAL_COLUMNS ELSE terminal_columns
    /\ terminal_lines' = DEFAULT_TERMINAL_LINES
    /\ pc' = "size_return"
    /\ UNCHANGED <<size_failure, drops, speeds, lengths>>
    /\ SizeUnchanged

\* except (OSError, Exception): both attributes from kwargs.get(.., DEFAULT_..)
_get_terminal_size_except ==
    /\ pc = "size_except"
    /\ terminal_columns' = DEFAULT_TERMINAL_COLUMNS
    /\ terminal_lines' = DEFAULT_TERMINAL_LINES
    /\ pc' = "size_return"
    /\ UNCHANGED <<size_failure, drops, speeds, lengths>>
    /\ SizeUnchanged

\* return self.terminal_columns, self.terminal_lines; __init__ assigns the
\* pair to the same two attributes, then frame, display and colors
_TerminalFrame_init ==
    /\ pc = "size_return"
    /\ terminal_columns' = terminal_columns
    /\ terminal_lines' = terminal_lines
    /\ frame' = 0
    /\ display' = <<>>
    /\ colors' = <<>>
    /\ pc' = "frame_init"
    /\ UNCHANGED <<runner, frames_idle, sigint, frame_out, cell_writes, size_failure, drops,
                   speeds, lengths, col_index, column_skip_interval, error,
                   out, exc, steps, did_reset, exit_entries>>

\* FrameDrawer.__init__: self.drops, self.speeds, self.lengths =
\* self.initialize_columns(); the random lists are sampled by the lists
\* whose entries are all equal
FrameDrawer_init ==
    /\ pc = "frame_init"
    /\ drops' = [c \in 1..terminal_columns |-> 0]
    /\ \E s \in SpeedSet : speeds' = [c \in 1..terminal_columns |-> s]
    /\ \E l \in LengthSet : lengths' = [c \in 1..terminal_columns |-> l]
    /\ pc' = "constructed"
    /\ UNCHANGED <<terminal_columns, terminal_lines, size_failure>>
    /\ SizeUnchanged

SizeNext ==
    \/ _get_terminal_size_columns
    \/ _get_terminal_size_lines
    \/ _get_terminal_size_except
    \/ _TerminalFrame_init
    \/ FrameDrawer_init

SizeSpec == SizeInit /\ [][SizeNext]_vars

(* ------------------------------- claims ------------------------------- *)
Cell(buf, row, col) == buf[row + 1][col + 1]
RowIndexes == 0..(terminal_lines - 1)
ColumnIndexes == 0..(terminal_columns - 1)
Simulating == runner \in {"enter_the_matrix", "update_and_draw_columns"}
Written(what) == \E k \in 1..Len(out) : out[k] = what
TimesWritten(what) == Cardinality({k \in 1..Len(out) : out[k] = what})

\* C1 (as claimed): in both runners every iteration clears the surface,
\* advances all columns, renders and sleeps, in this order and once each:
\* the render finds the columns advanced, the sleep finds the frame rendered,
\* and the next iteration starts after exactly these four steps.
C1_IterationOrder ==
    runner \in Programs =>
        /\ pc = "draw" => steps = <<"clear", "advance">>
        /\ pc = "sleep" => steps = <<"clear", "advance", "render">>
        /\ (pc = "create" /\ frame > 0) =>
               steps = <<"clear", "advance", "render", "sleep">>

\* C2: every column's speed is in [0.5, 1.5] and its trail length is an
\* integer in [5, 25], in every reachable state.
C2_SpeedAndTrailInRange ==
    /\ Len(speeds) = terminal_columns
    /\ Len(lengths) = terminal_columns
    /\ \A c \in 1..terminal_columns :
          /\ 2 * speeds[c] >= SpeedDen
          /\ 2 * speeds[c] <= 3 * SpeedDen
          /\ lengths[c] \in Int
          /\ lengths[c] >= 5
          /\ lengths[c] <= 25

\* C2 witness: a column has just been reset and re-randomized
C2_AfterReset ==
    /\ did_reset
    /\ pc = "paint"
    /\ drops[col_index + 1] = 0
    /\ frame > 0

\* C3: once a frame has begun both buffers are lines x columns; right after
\* the clear every cell is blank with the reset color; and while the columns
\* are advanced, every column not yet painted in this frame is still blank,
\* so nothing of the previous frame is left in it.
C3_BuffersClearedEachFrame ==
    /\ steps # <<>> =>
          /\ Len(display) = terminal_lines
          /\ Len(colors) = terminal_lines
          /\ \A r \in 1..terminal_lines :
                /\ Len(display[r]) = terminal_columns
                /\ Len(colors[r]) = terminal_columns
    /\ pc \in {"update", "check", "paint"} =>
          \A c \in ColumnIndexes, r \in RowIndexes :
              c >= col_index =>
                  /\ Cell(display, r, c) = BLANK
                  /\ Cell(colors, r, c) = RESET

\* C3 witness: the second frame has been cleared, and the last column, which
\* the first frame painted (its head is on the screen), is blank again
C3_ClearedAfterPaintedFrame ==
    /\ runner = "enter_the_matrix"
    /\ frame = 1
    /\ pc = "update"
    /\ col_index = 0
    /\ drops[terminal_columns] = 1
    /\ \A r \in RowIndexes : Cell(display, r, terminal_columns - 1) = BLANK


\* the columns whose trail has been painted in the current frame
PaintedColumns ==
    IF ~Simulating
    THEN {}
    ELSE IF pc \in {"update", "check", "paint"}
         THEN 0..(col_index - 1)
         ELSE IF pc \in {"draw", "sleep"} THEN ColumnIndexes ELSE {}

\* the column whose advance has just been completed, or -1
ColumnJustAdvanced ==
    IF ~Simulating
    THEN -1
    ELSE IF pc = "update" /\ steps = <<"clear">>
         THEN col_index - 1
         ELSE IF pc = "draw" THEN col_index ELSE -1

\* C4, state part: the paint step never sees a drop position beyond
\* lines + trail length, after a reset it sees drop position 0, and what a
\* reset column shows after its paint is the trail of drop position 0:
\* the head in row 0 and nothing below.
C4_PaintSeesResetColumn ==
    /\ (Simulating /\ pc = "paint") =>
          /\ drops[col_index + 1] <= terminal_lines + lengths[col_index + 1]
          /\ did_reset => drops[col_index + 1] = 0
    /\ (did_reset /\ ColumnJustAdvanced >= 0) =>
          /\ drops[ColumnJustAdvanced + 1] = 0
          /\ Cell(display, 0, ColumnJustAdvanced) # BLANK
          /\ Cell(colors, 0, ColumnJustAdvanced) \in {BRIGHT_GREEN, RED}
          /\ \A r \in RowIndexes :
                r > 0 => Cell(display, r, ColumnJustAdvanced) = BLANK

\* C4, step part: the drop-off check of a column beyond lines + trail length
\* sets its drop position to 0 and draws a speed and a trail length again.
C4_CheckResets ==
    (pc = "check" /\ pc' = "paint"
        /\ drops[col_index + 1] > terminal_lines + lengths[col_index + 1]) =>
            /\ drops'[col_index + 1] = 0
            /\ did_reset'
            /\ 2 * speeds'[col_index + 1] >= SpeedDen
            /\ 2 * speeds'[col_index + 1] <= 3 * SpeedDen
            /\ lengths'[col_index + 1] >= 5
            /\ lengths'[col_index + 1] <= 25

\* C4: a column whose drop position exceeds lines + trail length is reset
\* (drop position 0, speed and trail length drawn again) by that very
\* advance call before its trail is painted, and the paint uses the new
\* values.
C4_ResetBeforePaint == [] C4_PaintSeesResetColumn /\ [][C4_CheckResets]_vars

\* C4 witness: a reset column has been painted from drop position 0
C4_ResetColumnPainted ==
    /\ did_reset
    /\ ColumnJustAdvanced >= 0
    /\ Cell(display, 0, ColumnJustAdvanced) # BLANK
    /\ lengths[ColumnJustAdvanced + 1] = 25

\* the color tier the claim gives offset k
ClaimedTier(k, err) ==
    IF err THEN RED
    ELSE IF k = 0 THEN BRIGHT_GREEN
    ELSE IF 1 <= k /\ k < 3 THEN GREEN
    ELSE DIM_GREEN

\* C5: every painted trail cell at offset k behind the head (k = drop
\* position - row, 0 <= k < trail length) has the bright tier for k = 0, the
\* mid tier for 1 <= k < 3, the dim tier for k >= 3, and in error mode the
\* alert tier for every k.
C5_TrailColorTiers ==
    \A c \in PaintedColumns, r \in RowIndexes :
        LET k == drops[c + 1] - r
        IN  (0 <= k /\ k < lengths[c + 1]) =>
                /\ Cell(display, r, c) \in CHARS
                /\ Cell(colors, r, c) = ClaimedTier(k, error)

\* C5 witness: error mode has painted a cell three rows or more behind the
\* head, and the row above it, still further behind
C5_ErrorModeDimOffset ==
    /\ runner = "update_and_draw_columns"
    /\ error
    /\ pc = "draw"
    /\ \E c \in ColumnIndexes :
          /\ drops[c + 1] - 1 >= 3
          /\ drops[c + 1] - 1 < lengths[c + 1]
          /\ Cell(colors, 1, c) = RED
          /\ Cell(colors, 0, c) = RED

\* floor(2 / speed) of the speed n / SpeedDen, by its defining inequality
FloorOfTwoOver(n) ==
    CHOOSE k \in 0..(2 * SpeedDen) : k * n <= 2 * SpeedDen /\ (k + 1) * n > 2 * SpeedDen

\* C6: the skip interval the simulator computes for a column equals
\* max(1, floor(2 / speed)), is one of 1, 2, 3, 4, and is non-increasing in
\* the speed.
C6_SkipInterval ==
    /\ (Simulating /\ pc = "check") =>
          /\ column_skip_interval = Max(1, FloorOfTwoOver(speeds[col_index + 1]))
          /\ column_skip_interval \in {1, 2, 3, 4}
    /\ \A a \in SpeedSet, b \in SpeedSet :
          a <= b =>
              /\ skip_interval(a) >= skip_interval(b)
              /\ Matrix_skip_interval(a) >= Matrix_skip_interval(b)

\* C6 witness: a column of speed 0.5 got the skip interval 4
C6_SlowestColumn ==
    /\ Simulating
    /\ pc = "check"
    /\ 2 * speeds[col_index + 1] = SpeedDen
    /\ column_skip_interval = 4
    /\ frame > 0

\* C7, step part: one advance of a column at frame counter f adds exactly 1
\* to its drop position if f mod skip interval = 0 and leaves it otherwise,
\* before the reset check; no other column's drop position changes.
C7_IncrementStep ==
    (pc = "update" /\ pc' = "check") =>
        LET k == Max(1, FloorOfTwoOver(speeds[col_index + 1]))
        IN  drops' = [drops EXCEPT ![col_index + 1] =
                          IF frame % k = 0 THEN @ + 1 ELSE @]

\* C7, state part: after the first tick from initialization every column
\* whose skip interval is 1 has drop position 1.
C7_AfterFirstTick ==
    (Simulating /\ frame = 0 /\ pc \in {"draw", "sleep"}) =>
        \A c \in 1..terminal_columns :
            Max(1, FloorOfTwoOver(speeds[c])) = 1 => drops[c] = 1

\* C7: the drop position grows by exactly 1 when the frame counter is a
\* multiple of the skip interval and is left alone otherwise; so after the
\* first tick every column of skip interval 1 is at drop position 1.
C7_DropIncrement == [] C7_AfterFirstTick /\ [][C7_IncrementStep]_vars

\* C7 witness: a later tick has left a column where it was, its skip
\* interval not dividing the frame counter
C7_SkippedTick ==
    /\ Simulating
    /\ pc = "check"
    /\ frame = 3
    /\ column_skip_interval = 2
    /\ drops[col_index + 1] = 2


\* C8 (as claimed): after an interrupt in the loop of jack_in the shutdown
\* runs to its last step: cursor-show, style reset, the final frame in error
\* coloring with the exit banner, the pause, the clearing of the screen, in
\* this order, and no step of it raises an error.  (A second interrupt or a
\* failing write is not the shutdown's own doing and is left out.)
C8_ShutdownRunsToTheEnd ==
    (runner = "jack_in" /\ exit_entries > 0 /\ pc \in EndPcs
        /\ exc \notin {"KeyboardInterrupt", "OSError"}) =>
            /\ pc = "done"
            /\ exc = "none"
            /\ \E a, b, c, d, e, f \in 1..Len(out) :
                  /\ a < b /\ b < c /\ c < d /\ d < e /\ e < f
                  /\ out[a] = SHOW_CURSOR
                  /\ out[b] = RESET
                  /\ out[c] = "ERROR_FRAME"
                  /\ out[d] = "EXIT_TEXT"
                  /\ out[e] = "PAUSE"
                  /\ out[f] = "CLEAR_SCREEN"
                  /\ f = Len(out)

\* C9 (as claimed): whenever the process of a started runner has ended, by
\* whatever path, the cursor-show sequence has been written.
C9_CursorShownBeforeExit ==
    (runner \in Programs /\ pc \in EndPcs) => Written(SHOW_CURSOR)

\* C10 (as claimed): the shutdown routine is entered at most once, and a run
\* that ended after an interrupt in the loop has written cursor-show exactly
\* once, also when a second interrupt came while the shutdown was under way.
\* (Runs ended by a failing write are left out.)
C10_ShutdownExactlyOnce ==
    runner \in Programs =>
        /\ exit_entries <= 1
        /\ TimesWritten(SHOW_CURSOR) <= 1
        /\ (pc \in EndPcs /\ exit_entries >= 1 /\ exc # "OSError") =>
               TimesWritten(SHOW_CURSOR) = 1

\* C11: the loop is left only by Ctrl+C.  The shutdown (and the normal end of
\* the process) is reached only after an interrupt was received, the frame
\* counter never goes back, and a run that gets no interrupt (and whose
\* writes do not fail) goes on rendering frames up to the cap of the counter.
C11_ShutdownEntered == pc \in ExitPcs \cup {"done"} \/ exit_entries > 0
C11_FrameStep == frame' >= frame /\ (pc \in LoopPcs /\ pc' \notin LoopPcs => sigint' > sigint \/ exc' = "OSError")
C11_LoopOnlyLeftByInterrupt ==
    /\ [](runner \in Programs /\ C11_ShutdownEntered => sigint >= 1)
    /\ [][C11_FrameStep]_vars
    /\ (runner \in Programs => <>(sigint >= 1 \/ exc = "OSError" \/ (frame = MaxFrame /\ pc = "sleep")))

\* witness: the last frame of an uninterrupted run was rendered
C11_RanUninterrupted ==
    /\ runner \in Programs
    /\ sigint = 0
    /\ exc = "none"
    /\ frame = MaxFrame
    /\ pc = "sleep"
    /\ steps = <<"clear", "advance", "render">>

\* C12: a render writes the cursor-to-top-left sequence first and once, then
\* one line per terminal line, each made of one (color, character) pair per
\* column from left to right followed by one RESET; a newline follows every
\* line but the last, and the flush comes last.
C12_RowStride == 2 * terminal_columns + 2
C12_RenderLayout ==
    pc = "sleep" =>
        /\ Len(frame_out) = 1 + terminal_lines * (2 * terminal_columns + 1)
                               + (terminal_lines - 1) + 1
        /\ frame_out[1] = CURSOR_TOP_LEFT
        /\ frame_out[Len(frame_out)] = FLUSH
        /\ \A r \in RowIndexes :
              LET base == 1 + r * C12_RowStride
              IN  /\ \A c \in ColumnIndexes :
                        /\ frame_out[base + 2 * c + 1] = Cell(colors, r, c)
                        /\ frame_out[base + 2 * c + 2] = Cell(display, r, c)
                  /\ frame_out[base + 2 * terminal_columns + 1] = RESET
                  /\ r < terminal_lines - 1 => frame_out[base + C12_RowStride] = NEWLINE
        /\ Cardinality({k \in 1..Len(frame_out) : frame_out[k] = NEWLINE})
               = terminal_lines - 1
        /\ Cardinality({k \in 1..Len(frame_out) : frame_out[k] = CURSOR_TOP_LEFT}) = 1

\* witness: a rendered frame of Matrix.py with a drop head in the top row of
\* the last column and a blank cell elsewhere
C12_RenderedPaintedFrame ==
    /\ runner = "enter_the_matrix"
    /\ pc = "sleep"
    /\ frame_out[2 * terminal_columns] = BRIGHT_GREEN
    /\ \E k \in 1..Len(frame_out) : frame_out[k] = BLANK

\* C14: the size query never lets an exception out, and when either read of
\* it fails the object ends with exactly the default 80 x 24, also when the
\* columns had been read before the lines failed; construction goes on to
\* column lists of that many columns.
C14_SizeFallback ==
    /\ exc = "none"
    /\ pc \in SizePcs
    /\ (pc \in {"size_return", "frame_init", "constructed"}) =>
           IF size_failure = "none"
           THEN terminal_columns \in DetectedSizes /\ terminal_lines \in DetectedSizes
           ELSE /\ terminal_columns = DEFAULT_TERMINAL_COLUMNS
                /\ terminal_lines = DEFAULT_TERMINAL_LINES
                /\ terminal_columns = 80
                /\ terminal_lines = 24
    /\ pc = "constructed" =>
           /\ Len(drops) = terminal_columns
           /\ Len(speeds) = terminal_columns
           /\ Len(lengths) = terminal_columns

\* witness: the columns were read, the read of the lines failed, and the
\* object was constructed with the defaults
C14_LinesReadFailed ==
    /\ pc = "constructed"
    /\ size_failure = "lines"
    /\ terminal_columns = DEFAULT_TERMINAL_COLUMNS
    /\ Len(drops) = DEFAULT_TERMINAL_COLUMNS

\* C15: the simulation indexes the buffers only with 0 <= row < lines and
\* 0 <= column < columns; of a trail it writes exactly the rows that are on
\* the screen and skips the others (no index below 0 reaches a list).
C15_TrailRowsOnScreen(ci) ==
    {<<y, ci>> : y \in {r \in RowIndexes :
                          /\ r <= drops[ci + 1]
                          /\ r > drops[ci + 1] - lengths[ci + 1]}}
C15_WritesWithinBounds ==
    /\ \A w \in cell_writes :
          /\ 0 <= w[1] /\ w[1] < terminal_lines
          /\ 0 <= w[2] /\ w[2] < terminal_columns
          /\ cell_writes = C15_TrailRowsOnScreen(w[2])
    /\ (Simulating /\ pc = "draw") => cell_writes = C15_TrailRowsOnScreen(col_index)

\* witness: a trail whose head is below the top row and whose tail is still
\* above the screen was painted: some of its rows were skipped
C15_TrailPartlyOnScreen ==
    /\ runner = "update_and_draw_columns"
    /\ pc = "draw"
    /\ drops[col_index + 1] = 1
    /\ cell_writes = {<<0, col_index>>, <<1, col_index>>}

\* C16: a column is reset only when no row of its trail is on the screen:
\* in every step in which the reset fires, the values before the reset
\* satisfy dropPosition - (trailLength - 1) >= lines, so the topmost cell of
\* the trail is already below the last line.
C16_ResetFires ==
    /\ pc = "check"
    /\ did_reset' \/ drops' # drops \/ speeds' # speeds \/ lengths' # lengths
C16_ResetStep ==
    C16_ResetFires =>
        /\ drops[col_index + 1] - (lengths[col_index + 1] - 1) >= terminal_lines
        /\ \A r \in RowIndexes :
              ~(r <= drops[col_index + 1]
                  /\ r > drops[col_index + 1] - lengths[col_index + 1])
C16_ResetOnlyOffScreen == [][C16_ResetStep]_vars

\* witness: the earliest reset there is, of a shortest trail that fell one
\* row per frame
C16_EarliestReset ==
    /\ runner = "update_and_draw_columns"
    /\ pc = "paint"
    /\ did_reset
    /\ frame = terminal_lines + MinTrailLength

\* C17: a step of the advance of column col_index (increment, reset check,
\* painting of the trail) changes nothing of any other column: not its drop
\* position, speed or trail length, and no cell of its buffer column.
C17_OtherColumnsKept ==
    (Simulating /\ pc \in {"update", "check", "paint"}) =>
        \A c \in ColumnIndexes :
            c # col_index =>
                /\ drops'[c + 1] = drops[c + 1]
                /\ speeds'[c + 1] = speeds[c + 1]
                /\ lengths'[c + 1] = lengths[c + 1]
                /\ \A r \in RowIndexes :
                      /\ Cell(display', r, c) = Cell(display, r, c)
                      /\ Cell(colors', r, c) = Cell(colors, r, c)
C17_ColumnsIndependent == [][C17_OtherColumnsKept]_vars

\* witness: the last column was reset and painted in this frame while the
\* first column keeps its drop position and its painted top cell
C17_NeighbourUntouched ==
    /\ runner = "update_and_draw_columns"
    /\ pc = "draw"
    /\ did_reset
    /\ col_index > 0
    /\ drops[1] > 0
    /\ Cell(display, 0, 0) # BLANK

\* C18: no cell of the color buffer, and nothing a render wrote, holds the
\* alert color while a runner's loop runs and no interrupt has come; the
\* frame cycle paints the alert color only when error mode is asked for,
\* which the loops never do.
C18_AlertCells ==
    {<<r, c>> \in (1..Len(colors)) \X (1..terminal_columns) : colors[r][c] = RED}
C18_NoAlertWhileRunning ==
    /\ (runner \in Programs /\ sigint = 0) =>
           /\ C18_AlertCells = {}
           /\ \A k \in 1..Len(frame_out) : frame_out[k] # RED
           /\ ~error
    /\ (runner \in Programs /\ C18_AlertCells # {}) => exit_entries > 0
    /\ (runner = "update_and_draw_columns" /\ ~error) => C18_AlertCells = {}

\* witness: a running loop rendered a frame with a trail in normal colors
C18_NormalColorsRendered ==
    /\ runner = "enter_the_matrix"
    /\ sigint = 0
    /\ pc = "sleep"
    /\ \E k \in 1..Len(frame_out) : frame_out[k] = DIM_GREEN
    /\ C18_AlertCells = {}

\* C19: the terminal dimensions are the ones read at construction and no
\* step changes them (clear, advance, render, sleep, interrupt, shutdown);
\* drops, speeds and lengths have one entry per column in every state.
C19_ColumnLists ==
    /\ terminal_columns = _get_terminal_size[1]
    /\ terminal_lines = _get_terminal_size[2]
    /\ Len(drops) = terminal_columns
    /\ Len(speeds) = terminal_columns
    /\ Len(lengths) = terminal_columns
    /\ DOMAIN drops = 1..terminal_columns
C19_DimensionsStep ==
    /\ terminal_columns' = terminal_columns
    /\ terminal_lines' = terminal_lines
    /\ Len(drops') = Len(drops)
    /\ Len(speeds') = Len(speeds)
    /\ Len(lengths') = Len(lengths)
C19_DimensionsFixed == [] C19_ColumnLists /\ [][C19_DimensionsStep]_vars

\* witness: a run that rendered frames, reset a column and went through the
\* whole shutdown still has the dimensions and the column count it began with
C19_AfterWholeRun ==
    /\ runner = "enter_the_matrix"
    /\ pc = "done"
    /\ frame >= terminal_lines + MinTrailLength
    /\ did_reset
    /\ terminal_columns = Columns
    /\ terminal_lines = Lines
    /\ Len(drops) = Columns

\* C20 (as claimed): once a runner has rendered its first frame the
\* cursor-hide sequence has been written, and whenever the cursor-show
\* sequence has been written the cursor-hide sequence was written before it.
C20_HideWritten ==
    \/ Written(HIDE_CURSOR)
    \/ \E k \in 1..Len(frame_out) : frame_out[k] = HIDE_CURSOR
C20_CursorHiddenBeforeFirstFrame ==
    runner \in Programs =>
        /\ (frame > 0 \/ pc = "sleep") => C20_HideWritten
        /\ Written(SHOW_CURSOR) =>
               \E h, w \in 1..Len(out) :
                   h < w /\ out[h] = HIDE_CURSOR /\ out[w] = SHOW_CURSOR

\* C21: in the initial state and after every completed advance of a column
\* its drop position is between 0 and lines + trail length; a drop position
\* goes down only by a reset to 0, goes up by at most one in a step, and only
\* in the increment of its own column, so by at most one per frame.
\* column c is inside an advance call: between the increment and the reset
\* check, or the call was cut off there by an interrupt and never completed
C21_MidCall(c) == (pc = "check" \/ pc \notin LoopPcs \cup {"intro"}) /\ c = col_index + 1
C21_DropInRange ==
    \A c \in 1..terminal_columns :
        /\ drops[c] >= 0
        /\ drops[c] <= frame + 1
        /\ ~C21_MidCall(c) => drops[c] <= terminal_lines + lengths[c]
C21_DropStep ==
    \A c \in 1..terminal_columns :
        /\ drops'[c] \in {drops[c], drops[c] + 1, 0}
        /\ drops'[c] < drops[c] => (pc = "check" /\ c = col_index + 1 /\ did_reset')
        /\ drops'[c] > drops[c] => (pc = "update" /\ c = col_index + 1)
        /\ (pc = "check" /\ pc' = "paint") => drops'[c] <= terminal_lines + lengths'[c]
C21_DropPositionBounded == [] C21_DropInRange /\ [][C21_DropStep]_vars

\* witness: a column completed an advance at the largest drop position it
\* can keep, one tick before its reset
C21_AtTheBound ==
    /\ Simulating
    /\ pc = "paint"
    /\ ~did_reset
    /\ drops[col_index + 1] = terminal_lines + lengths[col_index + 1]

\* C22: after the columns of a frame were advanced, the non-blank cells of
\* each column are exactly the rows from max(0, drop - length + 1) to
\* min(drop, lines - 1) (none when the trail is off the screen); a cell is
\* non-blank exactly when its color is not RESET; and a column has at most
\* one cell of the bright tier.
C22_Min(a, b) == IF a <= b THEN a ELSE b
C22_TrailRun(c) ==
    {r \in RowIndexes :
        /\ r >= Max(0, drops[c + 1] - lengths[c + 1] + 1)
        /\ r <= C22_Min(drops[c + 1], terminal_lines - 1)}
C23_AfterAdvance == pc \in {"draw", "sleep"}
C23_NoColumnStalls ==
    (runner \in Programs /\ C23_AfterAdvance) =>
        \A c \in 1..terminal_columns : frames_idle[c] <= 3

\* C23, the part that holds: where the simulation runs (Matrix.py, and the
\* frame cycle of draw_frame.py) no column stalls, the slowest one moving
\* every fourth frame.
C23_SimulationNeverStalls ==
    (Simulating /\ C23_AfterAdvance) =>
        \A c \in 1..terminal_columns :
            /\ frames_idle[c] <= 3
            /\ frames_idle[c] < skip_interval(speeds[c])
C23_SlowestColumnWaited ==
    /\ runner = "enter_the_matrix"
    /\ pc = "draw"
    /\ \E c \in 1..terminal_columns : frames_idle[c] = 3

====
